---- MODULE Spec2Model ----
(***************************************************************************)
(* Model of backend-langchain/tools.py: the six tools an agent can invoke. *)
(* An invocation is a call of one tool with keyword arguments; the three   *)
(* telemetry/log tools issue one blocking HTTP GET against the backend and *)
(* hand its text back, the other three return without any request.         *)
(***************************************************************************)
EXTENDS Integers, Sequences, FiniteSets, TLC

VARIABLES config, environ, backend, pc, call, locals, sent, response,
          printed, result, served, memo

vars == <<config, environ, backend, pc, call, locals, sent, response,
          printed, result, served, memo>>

(* ------------------------------ bounds -------------------------------- *)

\* At most this many value-range parameters are supplied by one invocation.
MaxSupplied == 1
\* Timestamps are drawn from the first MaxTime days of January 2024.
MaxTime == 2
\* The backend's data is in one of the states 0..MaxBackend.
MaxBackend == 1

(* --------------------------- Python values ---------------------------- *)

\* Python's None, as the value of a str | None argument.
None == "None"

NoArgs == [k \in {} |-> 0]

Str(text) == [kind |-> "str", text |-> text]
NoneValue == [kind |-> "None"]
Raise(exc) == [kind |-> "raise", exc |-> exc]
Pending == [kind |-> "pending"]

NoResponse == [arrived |-> FALSE]
NoServed == 0 - 1
NoMemo == [set |-> FALSE, other |-> FALSE]
NoCall == [tool |-> "none", args |-> NoArgs]

(* --------------------------- configuration ---------------------------- *)

BACKEND_URL == "http://backend"
DATABASE_DESCR == "DATABASE_DESCR"

(* ----------------------------- signatures ----------------------------- *)

TimeParams == {"from_timestamp", "to_timestamp"}

MachineValueParams ==
    {"min_comb_op_tmp_1", "max_comb_op_tmp_1",
     "min_comb_op_tmp_2", "max_comb_op_tmp_2",
     "min_comb_op_tmp_3", "max_comb_op_tmp_3",
     "min_material_pressure", "max_material_pressure",
     "min_material_temperature", "max_material_temperature",
     "min_motor_rpm", "max_motor_rpm"}

AmbientValueParams ==
    {"min_value_humidity", "max_value_humidity",
     "min_value_amb_temperature", "max_value_amb_temperature",
     "min_value_zone_1_temperature", "max_value_zone_1_temperature"}

\* The (min, max) parameter pair of each filtered column.
MachineRanges ==
    {<<"min_comb_op_tmp_1", "max_comb_op_tmp_1">>,
     <<"min_comb_op_tmp_2", "max_comb_op_tmp_2">>,
     <<"min_comb_op_tmp_3", "max_comb_op_tmp_3">>,
     <<"min_material_pressure", "max_material_pressure">>,
     <<"min_material_temperature", "max_material_temperature">>,
     <<"min_motor_rpm", "max_motor_rpm">>}

AmbientRanges ==
    {<<"min_value_humidity", "max_value_humidity">>,
     <<"min_value_amb_temperature", "max_value_amb_temperature">>,
     <<"min_value_zone_1_temperature", "max_value_zone_1_temperature">>}

\* The signature with one default mistyped (max_motor_rpm: int = 300).
get_machine_data_signature_typo ==
    [required |-> TimeParams,
     defaults |-> [min_comb_op_tmp_1 |-> 0, max_comb_op_tmp_1 |-> 200,
                   min_comb_op_tmp_2 |-> 0, max_comb_op_tmp_2 |-> 200,
                   min_comb_op_tmp_3 |-> 0, max_comb_op_tmp_3 |-> 200,
                   min_material_pressure |-> 0,
                   max_material_pressure |-> 1000,
                   min_material_temperature |-> 0,
                   max_material_temperature |-> 200,
                   min_motor_rpm |-> 0, max_motor_rpm |-> 300]]

\* def get_machine_data(from_timestamp, to_timestamp, min_comb_op_tmp_1=0, ...)
get_machine_data_signature ==
    [required |-> TimeParams,
     defaults |-> [min_comb_op_tmp_1 |-> 0, max_comb_op_tmp_1 |-> 200,
                   min_comb_op_tmp_2 |-> 0, max_comb_op_tmp_2 |-> 200,
                   min_comb_op_tmp_3 |-> 0, max_comb_op_tmp_3 |-> 200,
                   min_material_pressure |-> 0,
                   max_material_pressure |-> 1000,
                   min_material_temperature |-> 0,
                   max_material_temperature |-> 200,
                   min_motor_rpm |-> 0, max_motor_rpm |-> 3000]]

\* def get_ambient(from_timestamp, to_timestamp, min_value_humidity=0, ...)
get_ambient_signature ==
    [required |-> TimeParams,
     defaults |-> [min_value_humidity |-> 0, max_value_humidity |-> 100,
                   min_value_amb_temperature |-> 0,
                   max_value_amb_temperature |-> 100,
                   min_value_zone_1_temperature |-> 0,
                   max_value_zone_1_temperature |-> 100]]

\* def get_db_info() and def get_logs()
no_parameters_signature == [required |-> {}, defaults |-> NoArgs]

\* def query_documentation(question)
query_documentation_signature ==
    [required |-> {"question"}, defaults |-> NoArgs]

\* def visualize(table, column)
visualize_signature ==
    [required |-> {"table", "column"}, defaults |-> NoArgs]

\* Python's binding of keyword arguments to a signature: every required
\* parameter must be given (a missing one is a TypeError before the body
\* runs); a parameter with a default takes the default when not given.
Accepts(sig, args) ==
    /\ sig.required \subseteq DOMAIN args
    /\ DOMAIN args \subseteq sig.required \cup DOMAIN sig.defaults

Bind(sig, args) ==
    [p \in sig.required \cup DOMAIN sig.defaults |->
        IF p \in DOMAIN args THEN args[p] ELSE sig.defaults[p]]

(* ------------------------- outgoing requests -------------------------- *)

\* The request with a copied line left unedited: min_comb_op_tmp_2 carries
\* the value of min_comb_op_tmp_1.
MachineRequestCrossed(l) ==
    [method |-> "GET",
     url |-> config.BACKEND_URL \o "/machine",
     params |-> [from_ts |-> l.from_timestamp,
                 to_ts |-> l.to_timestamp,
                 min_comb_op_tmp_1 |-> l.min_comb_op_tmp_1,
                 max_comb_op_tmp_1 |-> l.max_comb_op_tmp_1,
                 min_comb_op_tmp_2 |-> l.min_comb_op_tmp_1,
                 max_comb_op_tmp_2 |-> l.max_comb_op_tmp_2,
                 min_comb_op_tmp_3 |-> l.min_comb_op_tmp_3,
                 max_comb_op_tmp_3 |-> l.max_comb_op_tmp_3,
                 min_material_pressure |-> l.min_material_pressure,
                 max_material_pressure |-> l.max_material_pressure,
                 min_material_temperature |-> l.min_material_temperature,
                 max_material_temperature |-> l.max_material_temperature,
                 min_motor_rpm |-> l.min_motor_rpm,
                 max_motor_rpm |-> l.max_motor_rpm]]

\* requests.get(config.BACKEND_URL + "/machine", params={...})
MachineRequest(l) ==
    [method |-> "GET",
     url |-> config.BACKEND_URL \o "/machine",
     params |-> [from_ts |-> l.from_timestamp,
                 to_ts |-> l.to_timestamp,
                 min_comb_op_tmp_1 |-> l.min_comb_op_tmp_1,
                 max_comb_op_tmp_1 |-> l.max_comb_op_tmp_1,
                 min_comb_op_tmp_2 |-> l.min_comb_op_tmp_2,
                 max_comb_op_tmp_2 |-> l.max_comb_op_tmp_2,
                 min_comb_op_tmp_3 |-> l.min_comb_op_tmp_3,
                 max_comb_op_tmp_3 |-> l.max_comb_op_tmp_3,
                 min_material_pressure |-> l.min_material_pressure,
                 max_material_pressure |-> l.max_material_pressure,
                 min_material_temperature |-> l.min_material_temperature,
                 max_material_temperature |-> l.max_material_temperature,
                 min_motor_rpm |-> l.min_motor_rpm,
                 max_motor_rpm |-> l.max_motor_rpm]]

\* The request with the two timestamps exchanged.
AmbientRequestSwapped(l) ==
    [method |-> "GET",
     url |-> config.BACKEND_URL \o "/ambient",
     params |-> [from_ts |-> l.to_timestamp,
                 to_ts |-> l.from_timestamp,
                 min_value_humidity |-> l.min_value_humidity,
                 max_value_humidity |-> l.max_value_humidity,
                 min_value_amb_temperature |-> l.min_value_amb_temperature,
                 max_value_amb_temperature |-> l.max_value_amb_temperature,
                 min_value_zone_1_temperature |->
                     l.min_value_zone_1_temperature,
                 max_value_zone_1_temperature |->
                     l.max_value_zone_1_temperature]]

\* requests.get(config.BACKEND_URL + "/ambient", params={...})
AmbientRequest(l) ==
    [method |-> "GET",
     url |-> config.BACKEND_URL \o "/ambient",
     params |-> [from_ts |-> l.from_timestamp,
                 to_ts |-> l.to_timestamp,
                 min_value_humidity |-> l.min_value_humidity,
                 max_value_humidity |-> l.max_value_humidity,
                 min_value_amb_temperature |-> l.min_value_amb_temperature,
                 max_value_amb_temperature |-> l.max_value_amb_temperature,
                 min_value_zone_1_temperature |->
                     l.min_value_zone_1_temperature,
                 max_value_zone_1_temperature |->
                     l.max_value_zone_1_temperature]]

\* requests.get(config.BACKEND_URL + "/logs")
LogsRequest ==
    [method |-> "GET", url |-> config.BACKEND_URL \o "/logs",
     params |-> NoArgs]

(* ------------------------------ backend ------------------------------- *)

TimeKeys == {"from_ts", "to_ts"}

\* The query string the HTTP client puts on the wire: a parameter whose
\* value is None is left out of it.
QueryString(params) ==
    [k \in {k \in DOMAIN params :
              ~(k \in TimeKeys /\ params[k] = None)} |-> params[k]]

\* The text the backend answers a request with: fixed by the backend's
\* data and by the URL and query string it receives, and by nothing else.
BackendText(b, req) ==
    "records@" \o ToString(b) \o " " \o req.url \o "?"
        \o ToString(QueryString(req.params))

\* The backend answers the request in flight.
Respond ==
    /\ pc = "waiting"
    /\ response' = [arrived |-> TRUE,
                    text |-> BackendText(backend, sent[Len(sent)])]
    /\ served' = backend
    /\ pc' = "responded"
    /\ UNCHANGED <<config, environ, backend, call, locals, sent, printed, result,
                   memo>>

\* The request fails (network failure): requests.get raises.
BackendFail ==
    /\ pc = "waiting"
    /\ result' = Raise("ConnectionError")
    /\ pc' = "done"
    /\ UNCHANGED <<config, environ, backend, call, locals, sent, response, printed,
                   served, memo>>

\* The backend's data changes (new samples, new log entries).
BackendChange ==
    /\ \E b \in (0..MaxBackend) \ {backend} : backend' = b
    /\ UNCHANGED <<config, environ, pc, call, locals, sent, response, printed,
                   result, served, memo>>

(* ------------------------------- tools -------------------------------- *)

Entered(tool) == pc = "invoked" /\ call.tool = tool

\* A call that Python rejects while binding its arguments.
Rejected ==
    /\ result' = Raise("TypeError")
    /\ pc' = "done"
    /\ UNCHANGED <<config, environ, backend, call, locals, sent, response, printed,
                   served, memo>>

\* A tool body that returns `value` without any request.
ReturnDirectly(value) ==
    /\ result' = value
    /\ served' = backend
    /\ pc' = "done"
    /\ UNCHANGED <<config, environ, backend, call, locals, sent, response, printed,
                   memo>>

\* results = requests.get(...): the request goes out and the call blocks.
Send(l, req) ==
    /\ locals' = l
    /\ sent' = Append(sent, req)
    /\ pc' = "waiting"
    /\ UNCHANGED <<config, environ, backend, call, response, printed, result,
                   served, memo>>

\* print(results.text); return results.text
ReturnText ==
    /\ printed' = Append(printed, response.text)
    /\ result' = Str(response.text)
    /\ pc' = "done"
    /\ UNCHANGED <<config, environ, backend, call, locals, sent, response, served,
                   memo>>

\* The tool reading the wrong attribute of config.
get_db_info_wrong_attr ==
    /\ Entered("get_db_info")
    /\ IF Accepts(no_parameters_signature, call.args)
       THEN ReturnDirectly(Str(config.BACKEND_URL))
       ELSE Rejected

get_db_info ==
    /\ Entered("get_db_info")
    /\ IF Accepts(no_parameters_signature, call.args)
       THEN ReturnDirectly(Str(config.DATABASE_DESCR))
       ELSE Rejected

get_machine_data ==
    /\ Entered("get_machine_data")
    /\ IF Accepts(get_machine_data_signature, call.args)
       THEN LET l == Bind(get_machine_data_signature, call.args)
            IN  Send(l, MachineRequest(l))
       ELSE Rejected

get_machine_data_return ==
    /\ pc = "responded"
    /\ call.tool = "get_machine_data"
    /\ ReturnText

get_ambient ==
    /\ Entered("get_ambient")
    /\ IF Accepts(get_ambient_signature, call.args)
       THEN LET l == Bind(get_ambient_signature, call.args)
            IN  Send(l, AmbientRequest(l))
       ELSE Rejected

get_ambient_return ==
    /\ pc = "responded"
    /\ call.tool = "get_ambient"
    /\ ReturnText

\* The tool building its URL in place: config.BACKEND_URL += "/logs".
get_logs_rebases_url ==
    /\ Entered("get_logs")
    /\ IF Accepts(no_parameters_signature, call.args)
       THEN /\ config' = [config EXCEPT
                            !.BACKEND_URL = config.BACKEND_URL \o "/logs"]
            /\ locals' = NoArgs
            /\ sent' = Append(sent, [method |-> "GET",
                                     url |-> config'.BACKEND_URL,
                                     params |-> NoArgs])
            /\ pc' = "waiting"
            /\ UNCHANGED <<environ, backend, call, response, printed,
                           result, served, memo>>
       ELSE Rejected

get_logs ==
    /\ Entered("get_logs")
    /\ IF Accepts(no_parameters_signature, call.args)
       THEN Send(NoArgs, LogsRequest)
       ELSE Rejected

get_logs_return ==
    /\ pc = "responded"
    /\ call.tool = "get_logs"
    /\ ReturnText

\* AzureCognitiveSearchRetriever(..., api_key=os.environ.get(
\* "AZURE_SEARCH_KEY"), top_k=10): the constructor makes no request. With
\* the variable set it gets a key and builds the object. With the variable
\* unset it gets api_key=None, and whether the retriever's own validation
\* of its fields then raises depends on the installed library: both
\* outcomes are possible.
\* After it every step is `pass` and the tool returns None.
query_documentation ==
    /\ Entered("query_documentation")
    /\ IF Accepts(query_documentation_signature, call.args)
       THEN LET api_key == environ.AZURE_SEARCH_KEY
            IN  \/ ReturnDirectly(NoneValue)
                \/ /\ api_key = None
                   /\ result' = Raise("ValueError")
                   /\ pc' = "done"
                   /\ UNCHANGED <<config, environ, backend, call, locals,
                                  sent, response, printed, served, memo>>
       ELSE Rejected

\* Every step of the body is `pass`; returns None.
visualize ==
    /\ Entered("visualize")
    /\ IF Accepts(visualize_signature, call.args)
       THEN ReturnDirectly(NoneValue)
       ELSE Rejected

(* ----------------------------- the agent ------------------------------ *)

\* The timestamp of day i, in the documented format %Y-%m-%d %H:%M:%S.
Stamp(i) == "2024-01-0" \o ToString(i) \o " 00:00:00"
TimeStamps == {Stamp(i) : i \in 1..MaxTime}

\* Values the agent supplies for a value-range parameter.
SuppliedValues == {0, 150, 300}

Questions == {"How do I reset machine 1?"}
Tables == {"machine", "recipes"}
Columns == {"motor_rpm"}

\* Each time parameter is left out, None, or a timestamp.
TimeArgs == UNION {[S -> TimeStamps \cup {None}] : S \in SUBSET TimeParams}

\* At most k of the value-range parameters are supplied.
ValueArgs(params, k) ==
    UNION {[S -> SuppliedValues] :
             S \in {T \in SUBSET params : Cardinality(T) <= k}}

\* Every value-range parameter is supplied: lo for each min, hi for each max.
FullValueArgs(ranges) ==
    {[p \in {r[1] : r \in ranges} \cup {r[2] : r \in ranges} |->
        IF p \in {r[1] : r \in ranges} THEN lo ELSE hi] :
        lo \in SuppliedValues, hi \in SuppliedValues}

TelemetryCalls(k) ==
    {[tool |-> "get_machine_data", args |-> t @@ v] :
        t \in TimeArgs, v \in ValueArgs(MachineValueParams, k)}
    \cup
    {[tool |-> "get_ambient", args |-> t @@ v] :
        t \in TimeArgs, v \in ValueArgs(AmbientValueParams, k)}

FullCalls ==
    {[tool |-> "get_machine_data", args |-> t @@ v] :
        t \in TimeArgs, v \in FullValueArgs(MachineRanges)}
    \cup
    {[tool |-> "get_ambient", args |-> t @@ v] :
        t \in TimeArgs, v \in FullValueArgs(AmbientRanges)}

OtherCalls ==
    {[tool |-> "get_db_info", args |-> NoArgs],
     [tool |-> "get_logs", args |-> NoArgs]}
    \cup
    {[tool |-> "query_documentation", args |-> a] :
        a \in UNION {[S -> Questions] : S \in SUBSET {"question"}}}
    \cup
    {[tool |-> "visualize", args |-> t @@ c] :
        t \in UNION {[S -> Tables] : S \in SUBSET {"table"}},
        c \in UNION {[S -> Columns] : S \in SUBSET {"column"}}}

Calls == TelemetryCalls(MaxSupplied) \cup FullCalls \cup OtherCalls

\* The calls the observed runs draw from: every tool; the telemetry tools
\* with every time argument and the value ranges left to their defaults,
\* and, without a time filter, with every value range supplied.
MemoCalls ==
    TelemetryCalls(0) \cup OtherCalls
    \cup {c \in FullCalls :
            /\ TimeParams \subseteq DOMAIN c.args
            /\ \A p \in TimeParams : c.args[p] = None}

\* The agent invokes a tool with the arguments it inferred.
Invoke(calls) ==
    /\ pc = "idle"
    /\ \E c \in calls :
          /\ call' = c
          /\ memo' = IF memo.set /\ c # memo.call
                     THEN [memo EXCEPT !.other = TRUE]
                     ELSE memo
    /\ pc' = "invoked"
    /\ UNCHANGED <<config, environ, backend, locals, sent, response,
                   printed, result, served>>

\* The agent takes the outcome of the finished invocation and goes on with
\* its reasoning; nothing of the invocation is kept by the tool layer.
Receive ==
    /\ pc = "done"
    /\ call' = NoCall
    /\ locals' = NoArgs
    /\ sent' = <<>>
    /\ response' = NoResponse
    /\ printed' = <<>>
    /\ result' = Pending
    /\ served' = NoServed
    /\ pc' = "idle"
    /\ UNCHANGED <<config, environ, backend, memo>>

\* An observer notes one finished invocation that returned a value: what
\* was called, the backend data it was served from, and what it returned.
\* From then on it also notes (in Invoke) whether a different call has been
\* made since.
Remember ==
    /\ pc = "done"
    /\ result.kind \in {"str", "None"}
    /\ ~memo.set
    /\ memo' = [set |-> TRUE, call |-> call, served |-> served,
                result |-> result, other |-> FALSE]
    /\ UNCHANGED <<config, environ, backend, pc, call, locals, sent, response,
                   printed, result, served>>

(* --------------------------- specifications --------------------------- *)

Init ==
    /\ config = [BACKEND_URL |-> BACKEND_URL,
                 DATABASE_DESCR |-> DATABASE_DESCR]
    /\ environ \in {[AZURE_SEARCH_KEY |-> k] : k \in {None, "key"}}
    /\ backend \in 0..MaxBackend
    /\ pc = "idle"
    /\ call = NoCall
    /\ locals = NoArgs
    /\ sent = <<>>
    /\ response = NoResponse
    /\ printed = <<>>
    /\ result = Pending
    /\ served = NoServed
    /\ memo = NoMemo

ToolStep ==
    \/ get_db_info
    \/ get_machine_data
    \/ get_machine_data_return
    \/ get_ambient
    \/ get_ambient_return
    \/ get_logs
    \/ get_logs_return
    \/ query_documentation
    \/ visualize

BackendStep ==
    \/ Respond
    \/ BackendFail
    \/ BackendChange

Next ==
    \/ Invoke(Calls)
    \/ Receive
    \/ ToolStep
    \/ BackendStep

Spec == Init /\ [][Next]_vars

NextMemo ==
    \/ Invoke(MemoCalls)
    \/ Receive
    \/ ToolStep
    \/ BackendStep
    \/ Remember

SpecMemo == Init /\ [][NextMemo]_vars

(* ------------------------------- claims ------------------------------- *)

Telemetry == {"get_machine_data", "get_ambient"}
BackendTools == Telemetry \cup {"get_logs"}

\* The default bounds the documentation states for each value-range
\* parameter: temperatures 0..200, pressure 0..1000, RPM 0..3000, ambient
\* quantities 0..100.
DocumentedDefault ==
    [min_comb_op_tmp_1 |-> 0, max_comb_op_tmp_1 |-> 200,
     min_comb_op_tmp_2 |-> 0, max_comb_op_tmp_2 |-> 200,
     min_comb_op_tmp_3 |-> 0, max_comb_op_tmp_3 |-> 200,
     min_material_pressure |-> 0, max_material_pressure |-> 1000,
     min_material_temperature |-> 0, max_material_temperature |-> 200,
     min_motor_rpm |-> 0, max_motor_rpm |-> 3000,
     min_value_humidity |-> 0, max_value_humidity |-> 100,
     min_value_amb_temperature |-> 0, max_value_amb_temperature |-> 100,
     min_value_zone_1_temperature |-> 0,
     max_value_zone_1_temperature |-> 100]

ValueParamsOf(tool) ==
    IF tool = "get_machine_data" THEN MachineValueParams
    ELSE AmbientValueParams

RangesOf(tool) ==
    IF tool = "get_machine_data" THEN MachineRanges ELSE AmbientRanges

\* The query key each parameter is documented to travel under.
KeyOf(p) ==
    IF p = "from_timestamp" THEN "from_ts"
    ELSE IF p = "to_timestamp" THEN "to_ts"
    ELSE p

MachineKeys == {KeyOf(p) : p \in TimeParams \cup MachineValueParams}
AmbientKeys == {KeyOf(p) : p \in TimeParams \cup AmbientValueParams}

\* The value the caller means for a value-range parameter: the one given,
\* else the documented default.
Meant(p) ==
    IF p \in DOMAIN call.args THEN call.args[p] ELSE DocumentedDefault[p]

\* a is not later than b, for two timestamps.
NotLater(a, b) ==
    \E i \in 1..MaxTime, j \in 1..MaxTime :
        i <= j /\ a = Stamp(i) /\ b = Stamp(j)

\* C1: in every request of get_machine_data and get_ambient each
\* value-range parameter the caller omitted carries exactly its documented
\* default, each supplied one carries the caller's value, no parameter is
\* missing, and a range left wholly to its defaults is neither inverted nor
\* of zero width.
C1_DefaultsApplied ==
    call.tool \in Telemetry =>
        \A i \in 1..Len(sent) :
            /\ \A p \in ValueParamsOf(call.tool) :
                  /\ p \in DOMAIN sent[i].params
                  /\ sent[i].params[p] =
                        IF p \in DOMAIN call.args THEN call.args[p]
                        ELSE DocumentedDefault[p]
            /\ \A r \in RangesOf(call.tool) :
                  (r[1] \notin DOMAIN call.args
                     /\ r[2] \notin DOMAIN call.args)
                  => sent[i].params[r[1]] < sent[i].params[r[2]]

\* A machine query that supplied one bound (150) and left the RPM range and
\* the rest to the defaults.
C1_Witness ==
    /\ pc = "waiting"
    /\ call.tool = "get_machine_data"
    /\ DOMAIN call.args = TimeParams \cup {"min_comb_op_tmp_1"}
    /\ call.args["min_comb_op_tmp_1"] = 150
    /\ Len(sent) = 1
    /\ sent[1].params.min_comb_op_tmp_1 = 150
    /\ sent[1].params.min_motor_rpm = 0
    /\ sent[1].params.max_motor_rpm = 3000
    /\ sent[1].params.max_material_pressure = 1000

\* C2: when get_machine_data or get_ambient is given two timestamps with
\* from <= to, the request carries the from argument under from_ts and the
\* to argument under to_ts, unchanged, and both reach the query string.
C2_TimestampsUnmodified ==
    (/\ call.tool \in Telemetry
     /\ TimeParams \subseteq DOMAIN call.args
     /\ NotLater(call.args["from_timestamp"], call.args["to_timestamp"]))
    => \A i \in 1..Len(sent) :
          /\ sent[i].params.from_ts = call.args["from_timestamp"]
          /\ sent[i].params.to_ts = call.args["to_timestamp"]
          /\ TimeKeys \subseteq DOMAIN QueryString(sent[i].params)
          /\ QueryString(sent[i].params).from_ts
                = call.args["from_timestamp"]
          /\ QueryString(sent[i].params).to_ts = call.args["to_timestamp"]

\* An ambient query from day 1 to day 2 has gone out.
C2_Witness ==
    /\ pc = "waiting"
    /\ call.tool = "get_ambient"
    /\ TimeParams \subseteq DOMAIN call.args
    /\ call.args["from_timestamp"] = Stamp(1)
    /\ call.args["to_timestamp"] = Stamp(2)
    /\ Len(sent) = 1
    /\ sent[1].params.from_ts = Stamp(1)
    /\ sent[1].params.to_ts = Stamp(2)

\* C3: every request goes to the invoking tool's own endpoint with exactly
\* the documented keys, each carrying the value of the same-named argument
\* (14 keys to /machine, 8 keys to /ambient, none to /logs); the tools
\* without a backend endpoint issue no request.
C3_EndpointAndKeys ==
    /\ call.tool \notin BackendTools => sent = <<>>
    /\ \A i \in 1..Len(sent) :
          /\ sent[i].method = "GET"
          /\ call.tool = "get_machine_data" =>
                /\ sent[i].url = BACKEND_URL \o "/machine"
                /\ DOMAIN sent[i].params = MachineKeys
          /\ call.tool = "get_ambient" =>
                /\ sent[i].url = BACKEND_URL \o "/ambient"
                /\ DOMAIN sent[i].params = AmbientKeys
          /\ call.tool = "get_logs" =>
                /\ sent[i].url = BACKEND_URL \o "/logs"
                /\ DOMAIN sent[i].params = {}
          /\ call.tool \in Telemetry =>
                /\ \A p \in TimeParams :
                      sent[i].params[KeyOf(p)] = call.args[p]
                /\ \A p \in ValueParamsOf(call.tool) :
                      sent[i].params[KeyOf(p)] = Meant(p)

\* A machine query whose only supplied bound is min_comb_op_tmp_1 = 150: the
\* value sits under its own key and under no other.
C3_Witness ==
    /\ pc = "waiting"
    /\ call.tool = "get_machine_data"
    /\ DOMAIN call.args = TimeParams \cup {"min_comb_op_tmp_1"}
    /\ call.args["min_comb_op_tmp_1"] = 150
    /\ Len(sent) = 1
    /\ sent[1].url = BACKEND_URL \o "/machine"
    /\ Cardinality(DOMAIN sent[1].params) = 14
    /\ {k \in DOMAIN sent[1].params \ TimeKeys : sent[1].params[k] = 150}
          = {"min_comb_op_tmp_1"}

\* C4: every invocation of get_machine_data, get_ambient or get_logs makes
\* exactly one request; it is over only once the response to that request
\* has arrived (or the request has failed), and a value it returns is the
\* text the backend answered with, unmodified.
C4_OneCallVerbatim ==
    (call.tool \in BackendTools /\ pc = "done")
    => /\ Len(sent) = 1
       /\ result.kind # "raise" =>
             /\ response.arrived
             /\ response.text = BackendText(served, sent[1])
             /\ result = Str(response.text)

\* What counts as a clearly marked "not available" result.
NotAvailableTexts == {"not available"}

\* C5: every invocation that returns hands the agent a string, and
\* query_documentation and visualize return a string marked "not available".
C5_AlwaysString ==
    (pc = "done" /\ result.kind # "raise")
    => /\ result.kind = "str"
       /\ call.tool \in {"query_documentation", "visualize"}
             => result.text \in NotAvailableTexts

\* C6: a get_machine_data invocation that leaves out from_timestamp,
\* to_timestamp or both is accepted: it issues its request, the query string
\* has no time filter on the omitted side, and the omitted value bounds have
\* their defaults.
C6_TimestampsOptional ==
    (call.tool = "get_machine_data" /\ pc \in {"waiting", "responded", "done"})
    => /\ Len(sent) = 1
       /\ result # Raise("TypeError")
       /\ \A p \in TimeParams \ DOMAIN call.args :
             KeyOf(p) \notin DOMAIN QueryString(sent[1].params)
       /\ \A p \in MachineValueParams \ DOMAIN call.args :
             sent[1].params[p] = DocumentedDefault[p]

\* The tables the tools' documentation names.
KnownTables == {"input", "ambient", "machine", "qa"}

\* A result that tells the agent the call failed and why.
DescriptiveError(r) ==
    \/ r.kind = "raise"
    \/ r.kind = "str" /\ r.text \in {"error: unknown table"}

\* C7: visualize with a table name that is no known table ends in a
\* descriptive error and makes no request.
C7_UnknownTableRejected ==
    (/\ pc = "done"
     /\ call.tool = "visualize"
     /\ DOMAIN call.args = {"table", "column"}
     /\ call.args["table"] \notin KnownTables)
    => /\ sent = <<>>
       /\ DescriptiveError(result)

\* C8: get_db_info returns the configured description string on every
\* invocation, whatever was invoked before and whatever the backend holds;
\* it issues no request, prints nothing, and leaves the configuration and
\* the backend as they were.
C8_DbInfoFixed ==
    /\ [](  (pc = "done" /\ call.tool = "get_db_info")
            => /\ result = Str(DATABASE_DESCR)
               /\ sent = <<>>
               /\ printed = <<>>
               /\ ~response.arrived
               /\ config = [BACKEND_URL |-> BACKEND_URL,
                            DATABASE_DESCR |-> DATABASE_DESCR])
    /\ [][ (pc = "invoked" /\ call.tool = "get_db_info" /\ pc' = "done")
           => /\ backend' = backend
              /\ config' = config
              /\ sent' = sent
              /\ printed' = printed ]_vars

\* get_db_info has returned while the backend holds data state 1.
C8_Witness ==
    /\ pc = "done"
    /\ call.tool = "get_db_info"
    /\ backend = 1
    /\ result = Str(DATABASE_DESCR)

\* C9: an invocation returns the same result as an earlier one of the
\* same tool with the same arguments served from the same backend data,
\* whatever was invoked in between; and no step of the tool layer changes
\* the backend's data, the configuration or the environment that later
\* invocations read.
C9_Idempotent ==
    /\ [](  (/\ memo.set
             /\ pc = "done"
             /\ result.kind \in {"str", "None"}
             /\ call = memo.call
             /\ served = memo.served)
            => result = memo.result)
    /\ [][ pc' # pc => /\ backend' = backend
                       /\ config' = config
                       /\ environ' = environ ]_vars

\* After the remembered get_machine_data invocation (every range supplied,
\* inverted) a different call was made and taken back, and then the same
\* call, served from the same backend data, has returned the same text.
C9_Witness ==
    /\ memo.set
    /\ memo.other
    /\ pc = "done"
    /\ call.tool = "get_machine_data"
    /\ "min_motor_rpm" \in DOMAIN call.args
    /\ call.args["min_motor_rpm"] = 300
    /\ call.args["max_motor_rpm"] = 150
    /\ call = memo.call
    /\ served = memo.served
    /\ Len(sent) = 1
    /\ result.kind = "str"
    /\ result = memo.result

\* C10: get_machine_data and get_ambient reject no arguments of their own
\* accord: whatever the arguments, the invocation issues exactly one
\* request, every bound goes out as given (an inverted range neither
\* exchanged nor clamped), and it ends with the backend's text or with the
\* failure of that one request.
C10_NoLocalValidation ==
    (call.tool \in Telemetry /\ pc = "done")
    => /\ Len(sent) = 1
       /\ \A r \in RangesOf(call.tool) :
             /\ sent[1].params[r[1]] = Meant(r[1])
             /\ sent[1].params[r[2]] = Meant(r[2])
       /\ \/ result = Raise("ConnectionError")
          \/ /\ result.kind = "str"
             /\ result.text = BackendText(served, sent[1])

====
